---- MODULE Spec2Model ----
(***************************************************************************)
(* Model of the order book and order service of exchange-platform          *)
(*   backend/src/services/order_book_service.rs  (OrderQueue,              *)
(*                                                 OrderBookService)       *)
(*   backend/src/services/order_service.rs       (OrderService)            *)
(*   backend/src/handlers/orders.rs              (HTTP handlers)           *)
(*                                                                         *)
(* A command (create_order / cancel_order) is an async task.  Its steps    *)
(* are the accesses to shared state: a statement on the orders table, or   *)
(* one critical section under a half-book lock (the guard is taken and     *)
(* dropped inside the step, so a lock is never held between two steps).    *)
(* Decimals are modelled by integers (prices in ticks, quantities in       *)
(* lots); the book uses only comparison, addition and subtraction.         *)
(* The service owns one bids map and one asks map, whatever the symbol.    *)
(***************************************************************************)
EXTENDS Integers, Sequences, FiniteSets, TLC

\* ------------------------------------------------------------------ bounds
MaxOrders == 3
MaxPrice == 2
MaxQty == 2

Prices == 1..MaxPrice
Quantities == 1..MaxQty
OrderIds == 1..MaxOrders
Procs == {1, 2}

\* models.rs: enum OrderSide, OrderType (the book never reads order_type),
\* OrderStatus
OrderSide == {"Buy", "Sell"}
OrderType == {"Market", "Limit"}
OrderStatus == {"New", "Open", "PartiallyFilled", "Filled", "Cancelled", "Rejected"}

VARIABLES
    bids,       \* OrderBookService.bids: BTreeMap price -> OrderQueue
    asks,       \* OrderBookService.asks: BTreeMap price -> OrderQueue
    db,         \* the orders table: db[id] is the row of order id
    task,       \* task[p]: the locals and position of the command task p runs
    last,       \* what the command completed last returned; cleared when the
                \* next command is taken up
    volume      \* sum of the quantities of all trades produced so far

vars == <<bids, asks, db, task, last, volume>>

\* ------------------------------------------------------------ pure helpers
Min(a, b) == IF a <= b THEN a ELSE b

SetMin(S) == CHOOSE x \in S : \A y \in S : x <= y
SetMax(S) == CHOOSE x \in S : \A y \in S : x >= y

RECURSIVE SumQty(_)
\* trades.iter().map(|t| t.quantity).sum()
SumQty(ts) == IF ts = <<>> THEN 0 ELSE ts[1].quantity + SumQty(Tail(ts))

\* BTreeMap operations on a map represented as a function on its key set
EmptyMap == [k \in {} |-> <<>>]
MapPut(m, k, v) == [x \in (DOMAIN m) \cup {k} |-> IF x = k THEN v ELSE m[x]]
MapRemove(m, k) == [x \in (DOMAIN m) \ {k} |-> m[x]]

\* ----------------------------------------------------------- OrderQueue
RECURSIVE InsertByCreatedAt(_, _)
\* one insertion of a stable sort: o goes behind every element whose key is
\* not larger
InsertByCreatedAt(q, o) ==
    IF q = <<>> THEN <<o>>
    ELSE IF q[1].created_at <= o.created_at
         THEN <<q[1]>> \o InsertByCreatedAt(Tail(q), o)
         ELSE <<o>> \o q

RECURSIVE SortByCreatedAt(_)
\* Vec::sort_by_key(|o| o.created_at): stable
SortByCreatedAt(q) ==
    IF q = <<>> THEN <<>>
    ELSE InsertByCreatedAt(SortByCreatedAt(SubSeq(q, 1, Len(q) - 1)), q[Len(q)])

\* add_order that puts the order in front of the queue
QueueAddOrderAtFront(q, o) == <<o>> \o q

\* OrderQueue::add_order
QueueAddOrder(q, o) == SortByCreatedAt(Append(q, o))

QueuePosition(q, order_id) ==
    IF \E i \in 1..Len(q) : q[i].id = order_id
    THEN SetMin({i \in 1..Len(q) : q[i].id = order_id})
    ELSE 0

\* OrderQueue::remove_order
QueueRemoveOrder(q, order_id) ==
    LET index == QueuePosition(q, order_id) IN
    IF index = 0 THEN q
    ELSE SubSeq(q, 1, index - 1) \o SubSeq(q, index + 1, Len(q))

\* OrderQueue::get_next_order: Vec::pop, the element taken
NextOrderIndex(q) == Len(q)

\* the queue get_next_order leaves behind
QueueAfterNext(q) ==
    LET i == NextOrderIndex(q) IN SubSeq(q, 1, i - 1) \o SubSeq(q, i + 1, Len(q))

RECURSIVE TotalQuantityIgnoringFills(_)
\* total_quantity that sums o.quantity alone
TotalQuantityIgnoringFills(q) ==
    IF q = <<>> THEN 0
    ELSE q[1].quantity + TotalQuantityIgnoringFills(Tail(q))

RECURSIVE TotalQuantity(_)
\* OrderQueue::total_quantity
TotalQuantity(q) ==
    IF q = <<>> THEN 0
    ELSE (q[1].quantity - q[1].filled_quantity) + TotalQuantity(Tail(q))

\* ------------------------------------------------------------ task records
NoOrder == [id |-> 0, side |-> "Buy", quantity |-> 0, price |-> 0,
            order_type |-> "Limit", status |-> "New", filled_quantity |-> 0,
            created_at |-> 0]

\* an OrderBook before anything is read into it
NoBook == [bids |-> <<>>, asks |-> <<>>]

\* the half-books as they stood when a submit began, kept for the claims
NoStart == [known |-> FALSE, bids |-> EmptyMap, asks |-> EmptyMap]

\* start: the half-books when the submit of task.order began with no other
\* command in flight (in a cancel: when the submit just completed began, if
\* it was the submit of this order);
\* view: the bids get_order_book has collected; seen: every book (as
\* get_order_book would report it) that has stood since this get_order_book
\* began, kept for the claims about snapshots
IdleTask == [pc |-> "idle", order |-> NoOrder, remaining_quantity |-> 0,
             trades |-> <<>>, best_price |-> 0, view |-> <<>>, seen |-> {},
             start |-> NoStart]

\* a CreateOrderRequest before anything is received
NoRequest == [symbol_len |-> 0, side |-> "Buy", quantity |-> 0, price |-> 0,
              order_type |-> "Limit"]

\* request: the CreateOrderRequest that was turned down
NoResponse == [kind |-> "none", result |-> "none", order |-> NoOrder,
               response |-> NoOrder, trades |-> <<>>, book |-> NoBook,
               request |-> NoRequest, start |-> NoStart]

AllIdle == \A p \in Procs : task[p].pc = "idle"

\* a new command runs in the lowest-numbered free task
FreeSlot(p) ==
    /\ task[p].pc = "idle"
    /\ \A q \in Procs : task[q].pc = "idle" => p <= q

Init ==
    /\ bids = EmptyMap
    /\ asks = EmptyMap
    /\ db = <<>>
    /\ task = [p \in Procs |-> IdleTask]
    /\ last = NoResponse
    /\ volume = 0

\* ------------------------------------------------- requests and validation
MaxSymbolLen == 20

\* CreateOrderRequest, the symbol reduced to its length: the requests with
\* a usable symbol, and one request with one field at or beyond a limit of
\* validate() (empty, longest and over-long symbol, zero quantity, zero
\* price)
UsableRequests ==
    [symbol_len : {1}, side : OrderSide, quantity : Quantities,
     price : Prices, order_type : OrderType]

BaseRequest ==
    [symbol_len |-> 1, side |-> "Buy", quantity |-> SetMin(Quantities),
     price |-> SetMin(Prices), order_type |-> "Limit"]

Requests ==
    UsableRequests
    \cup {[BaseRequest EXCEPT !.symbol_len = n] :
            n \in {0, MaxSymbolLen, MaxSymbolLen + 1}}
    \cup {[BaseRequest EXCEPT !.quantity = 0]}
    \cup {[BaseRequest EXCEPT !.price = 0]}

\* validate() without the check of the price
ValidateNoPrice(req) ==
    /\ ~(req.symbol_len = 0 \/ req.symbol_len > MaxSymbolLen)
    /\ ~(req.quantity <= 0)

\* CreateOrderRequest::validate
Validate(req) ==
    /\ ~(req.symbol_len = 0 \/ req.symbol_len > MaxSymbolLen)
    /\ ~(req.quantity <= 0)
    /\ ~(req.price <= 0)

\* --------------------------------------------------- matching, pure parts
\* mutant of BestAskPrice: the asks traversed from the highest price
WorstAskPrice(a) == SetMax(DOMAIN a)

\* asks.first_key_value(): the lowest ask price
BestAskPrice(a) == SetMin(DOMAIN a)

\* bids.last_key_value(): the highest bid price
BestBidPrice(b) == SetMax(DOMAIN b)

\* mutant of BuyCrosses: equality does not cross
BuyCrossesStrictly(buy_price, ask_price) == buy_price > ask_price

\* match_buy_order: if buy_order.price >= ask_price
BuyCrosses(buy_price, ask_price) == buy_price >= ask_price

\* match_sell_order: if sell_order.price <= bid_price
SellCrosses(sell_price, bid_price) == sell_price <= bid_price

\* trade quantity that takes all the maker has left
TradeQuantityMakerOnly(remaining_quantity, maker) ==
    maker.quantity - maker.filled_quantity

\* mutant of TradeQuantity: the fill is not capped by the maker
TradeQuantityUncapped(remaining_quantity, maker) == remaining_quantity

\* std::cmp::min(remaining_quantity, maker.quantity - maker.filled_quantity)
TradeQuantity(remaining_quantity, maker) ==
    Min(remaining_quantity, maker.quantity - maker.filled_quantity)

\* mutant of MakeTrade: the trade is priced at the taker's limit
MakeTradeAtTakerPrice(taker, maker, trade_quantity, level_price) ==
    [order_id |-> maker.id, quantity |-> trade_quantity, price |-> taker.price]

\* Trade { order_id: maker.id, quantity: trade_quantity, price: <level price> }
MakeTrade(taker, maker, trade_quantity, level_price) ==
    [order_id |-> maker.id, quantity |-> trade_quantity, price |-> level_price]

\* the write block that ends the matching when the level read is gone
MatchAtLevelGivingUp(book, taker, remaining_quantity, level_price) ==
    IF level_price \notin DOMAIN book
    THEN [book |-> book, trades |-> <<>>, remaining |-> 0]
    ELSE LET queue == book[level_price] IN
         IF queue = <<>>
         THEN [book |-> MapRemove(book, level_price), trades |-> <<>>,
               remaining |-> remaining_quantity]
         ELSE LET maker == queue[NextOrderIndex(queue)]
                  popped == QueueAfterNext(queue)
                  trade_quantity == TradeQuantity(remaining_quantity, maker)
                  filled == [maker EXCEPT
                                !.filled_quantity = @ + trade_quantity]
              IN [book |-> MapPut(book, level_price,
                                  IF filled.filled_quantity < filled.quantity
                                  THEN QueueAddOrder(popped, filled)
                                  ELSE popped),
                  trades |-> <<MakeTrade(taker, maker, trade_quantity,
                                         level_price)>>,
                  remaining |-> remaining_quantity - trade_quantity]

\* the write block that leaves a level it finds empty in the map
MatchAtLevelLeavingEmpty(book, taker, remaining_quantity, level_price) ==
    IF level_price \notin DOMAIN book \/ book[level_price] = <<>>
    THEN [book |-> book, trades |-> <<>>, remaining |-> remaining_quantity]
    ELSE LET queue == book[level_price]
             maker == queue[NextOrderIndex(queue)]
             popped == QueueAfterNext(queue)
             trade_quantity == TradeQuantity(remaining_quantity, maker)
             filled == [maker EXCEPT !.filled_quantity = @ + trade_quantity]
         IN [book |-> MapPut(book, level_price,
                             IF filled.filled_quantity < filled.quantity
                             THEN QueueAddOrder(popped, filled)
                             ELSE popped),
             trades |-> <<MakeTrade(taker, maker, trade_quantity,
                                    level_price)>>,
             remaining |-> remaining_quantity - trade_quantity]

\* The body of the write-locked block of match_buy_order / match_sell_order on
\* half-book `book` for the level read as `level_price`: the new half-book,
\* the trades it appends and what is left of the taker.
MatchAtLevel(book, taker, remaining_quantity, level_price) ==
    IF level_price \notin DOMAIN book
    THEN [book |-> book, trades |-> <<>>, remaining |-> remaining_quantity]
    ELSE LET queue == book[level_price] IN
         IF queue = <<>>
         THEN \* No more orders at this price level
              [book |-> MapRemove(book, level_price), trades |-> <<>>,
               remaining |-> remaining_quantity]
         ELSE LET maker == queue[NextOrderIndex(queue)]
                  popped == QueueAfterNext(queue)
                  trade_quantity == TradeQuantity(remaining_quantity, maker)
                  filled == [maker EXCEPT
                                !.filled_quantity = @ + trade_quantity]
              IN IF trade_quantity > 0
                 THEN [book |-> MapPut(book, level_price,
                                   IF filled.filled_quantity < filled.quantity
                                   THEN QueueAddOrder(popped, filled)
                                   ELSE popped),
                       trades |-> <<MakeTrade(taker, maker, trade_quantity,
                                              level_price)>>,
                       remaining |-> remaining_quantity - trade_quantity]
                 ELSE [book |-> MapPut(book, level_price, popped),
                       trades |-> <<>>, remaining |-> remaining_quantity]

\* add_order: entry(order.price).or_insert_with(OrderQueue::new)
\*                 .add_order(remaining_order)
RestOnBook(book, order) ==
    LET remaining_order == [order EXCEPT
                               !.quantity = order.quantity - order.filled_quantity,
                               !.filled_quantity = 0]
        queue == IF order.price \in DOMAIN book THEN book[order.price] ELSE <<>>
    IN MapPut(book, order.price, QueueAddOrder(queue, remaining_order))

\* remove_order that leaves the emptied level in the map
RemoveFromBookKeepLevel(book, order) ==
    IF order.price \notin DOMAIN book THEN book
    ELSE MapPut(book, order.price,
                QueueRemoveOrder(book[order.price], order.id))

\* remove_order, one side: get_mut(price), queue.remove_order(id), drop the
\* level if the queue is empty
RemoveFromBook(book, order) ==
    IF order.price \notin DOMAIN book THEN book
    ELSE LET queue == QueueRemoveOrder(book[order.price], order.id) IN
         IF queue = <<>> THEN MapRemove(book, order.price)
         ELSE MapPut(book, order.price, queue)

\* ---------------------------------------------------------- get_order_book
DepthLimit == 10

RECURSIVE KeysAscending(_)
\* BTreeMap::iter(): the keys in ascending order
KeysAscending(keys) ==
    IF keys = {} THEN <<>>
    ELSE <<SetMin(keys)>> \o KeysAscending(keys \ {SetMin(keys)})

Reverse(seq) == [i \in 1..Len(seq) |-> seq[Len(seq) + 1 - i]]

\* Iterator::take(n)
Take(seq, n) == SubSeq(seq, 1, Min(n, Len(seq)))

\* OrderBookEntry { price, quantity: queue.total_quantity(),
\*                  order_count: queue.orders.len() }
BookEntry(book, price) ==
    [price |-> price, quantity |-> TotalQuantity(book[price]),
     order_count |-> Len(book[price])]

EntriesOf(book, prices) == [i \in 1..Len(prices) |-> BookEntry(book, prices[i])]

\* the bid entries collected without .rev()
BidEntriesAscending(b) ==
    EntriesOf(b, Take(KeysAscending(DOMAIN b), DepthLimit))

\* bids.iter().rev().take(10).map(..).collect()
BidEntries(b) == EntriesOf(b, Take(Reverse(KeysAscending(DOMAIN b)), DepthLimit))

\* asks.iter().take(10).map(..).collect()
AskEntries(a) == EntriesOf(a, Take(KeysAscending(DOMAIN a), DepthLimit))

\* the OrderBook get_order_book would return were both sides read at once
BookView(b, a) == [bids |-> BidEntries(b), asks |-> AskEntries(a)]

\* the tasks t after a step that leaves the half-books b and a: every
\* get_order_book in flight has one more book it could have read
Observe(t, b, a) ==
    [q \in Procs |->
        IF t[q].pc = "snap_asks"
        THEN [t[q] EXCEPT !.seen = @ \cup {BookView(b, a)}]
        ELSE t[q]]

\* get_order_book: bids.read() and the bid entries
GetOrderBook(p) ==
    /\ FreeSlot(p)
    /\ task' = [task EXCEPT ![p] =
                  [IdleTask EXCEPT
                      !.pc = "snap_asks",
                      !.view = BidEntries(bids),
                      !.seen = {BookView(bids, asks)}]]
    /\ last' = NoResponse
    /\ UNCHANGED <<bids, asks, db, volume>>

\* get_order_book: asks.read(), the ask entries and the OrderBook returned
SnapshotAsks(p) ==
    /\ task[p].pc = "snap_asks"
    /\ last' = [NoResponse EXCEPT
                   !.kind = "book", !.result = "ok",
                   !.book = [bids |-> task[p].view, asks |-> AskEntries(asks)]]
    /\ task' = [task EXCEPT ![p] = IdleTask]
    /\ UNCHANGED <<bids, asks, db, volume>>

\* ------------------------------------------------------------ create_order
\* handlers::orders::create_order rejecting the request: validate() fails
RejectOrder(req) ==
    /\ ~Validate(req)
    /\ last' = [NoResponse EXCEPT !.kind = "create", !.result = "validation",
                                   !.request = req]
    /\ UNCHANGED <<bids, asks, db, task, volume>>

\* create_order: validate(), INSERT INTO orders ... RETURNING *, entry into
\* add_order and match_*_order (remaining_quantity = order.quantity)
CreateOrder(p, req) ==
    /\ FreeSlot(p)
    /\ Len(db) < MaxOrders
    /\ Validate(req)
    /\ LET order == [id |-> Len(db) + 1, side |-> req.side,
                     quantity |-> req.quantity, price |-> req.price,
                     order_type |-> req.order_type, status |-> "New",
                     filled_quantity |-> 0, created_at |-> Len(db) + 1]
       IN /\ db' = Append(db, order)
          /\ task' = [task EXCEPT ![p] =
                        [IdleTask EXCEPT
                            !.pc = IF req.side = "Buy" THEN "buy_read"
                                   ELSE "sell_read",
                            !.order = order,
                            !.remaining_quantity = order.quantity,
                            !.start = IF AllIdle
                                      THEN [known |-> TRUE, bids |-> bids,
                                            asks |-> asks]
                                      ELSE NoStart]]
    /\ last' = NoResponse
    /\ UNCHANGED <<bids, asks, volume>>

\* match_buy_order: loop test, asks.read(), first_key_value, price test
MatchBuyRead(p) ==
    /\ task[p].pc = "buy_read"
    /\ IF task[p].remaining_quantity > 0 /\ DOMAIN asks # {}
       THEN LET ask_price == BestAskPrice(asks) IN
            IF BuyCrosses(task[p].order.price, ask_price)
            THEN task' = [task EXCEPT ![p].pc = "buy_write",
                                      ![p].best_price = ask_price]
            ELSE task' = [task EXCEPT ![p].pc = "buy_rest"]
       ELSE task' = [task EXCEPT ![p].pc = "buy_rest"]
    /\ UNCHANGED <<bids, asks, db, last, volume>>

\* match_buy_order: asks.write(), get_mut(&ask_price) and the fill
MatchBuyWrite(p) ==
    /\ task[p].pc = "buy_write"
    /\ LET m == MatchAtLevel(asks, task[p].order, task[p].remaining_quantity,
                             task[p].best_price)
       IN /\ asks' = m.book
          /\ task' = Observe([task EXCEPT
                                  ![p].pc = "buy_read",
                                  ![p].trades = @ \o m.trades,
                                  ![p].remaining_quantity = m.remaining],
                              bids, m.book)
          /\ volume' = volume + SumQty(m.trades)
    /\ UNCHANGED <<bids, db, last>>

\* match_sell_order: loop test, bids.read(), last_key_value, price test
MatchSellRead(p) ==
    /\ task[p].pc = "sell_read"
    /\ IF task[p].remaining_quantity > 0 /\ DOMAIN bids # {}
       THEN LET bid_price == BestBidPrice(bids) IN
            IF SellCrosses(task[p].order.price, bid_price)
            THEN task' = [task EXCEPT ![p].pc = "sell_write",
                                      ![p].best_price = bid_price]
            ELSE task' = [task EXCEPT ![p].pc = "sell_rest"]
       ELSE task' = [task EXCEPT ![p].pc = "sell_rest"]
    /\ UNCHANGED <<bids, asks, db, last, volume>>

\* match_sell_order: bids.write(), get_mut(&bid_price) and the fill
MatchSellWrite(p) ==
    /\ task[p].pc = "sell_write"
    /\ LET m == MatchAtLevel(bids, task[p].order, task[p].remaining_quantity,
                             task[p].best_price)
       IN /\ bids' = m.book
          /\ task' = Observe([task EXCEPT
                                  ![p].pc = "sell_read",
                                  ![p].trades = @ \o m.trades,
                                  ![p].remaining_quantity = m.remaining],
                              m.book, asks)
          /\ volume' = volume + SumQty(m.trades)
    /\ UNCHANGED <<asks, db, last>>

\* add_order, Buy arm after matching: if order.quantity > order.filled_quantity
\* the order is put on the bids (order is the row as inserted)
RestBuy(p) ==
    /\ task[p].pc = "buy_rest"
    /\ bids' = IF task[p].order.quantity > task[p].order.filled_quantity
               THEN RestOnBook(bids, task[p].order)
               ELSE bids
    /\ task' = Observe([task EXCEPT ![p].pc = "update"], bids', asks)
    /\ UNCHANGED <<asks, db, last, volume>>

\* add_order, Sell arm after matching
RestSell(p) ==
    /\ task[p].pc = "sell_rest"
    /\ asks' = IF task[p].order.quantity > task[p].order.filled_quantity
               THEN RestOnBook(asks, task[p].order)
               ELSE asks
    /\ task' = Observe([task EXCEPT ![p].pc = "update"], bids, asks')
    /\ UNCHANGED <<bids, db, last, volume>>

\* status that takes an exact fill for a partial one
FilledStatusStrict(filled_quantity, quantity) ==
    IF filled_quantity > quantity THEN "Filled" ELSE "PartiallyFilled"

\* the status create_order records once trades occurred
FilledStatus(filled_quantity, quantity) ==
    IF filled_quantity >= quantity THEN "Filled" ELSE "PartiallyFilled"

\* create_order: UPDATE orders SET status, filled_quantity if trades occurred,
\* then Ok(OrderResponse::from(order)) with the row as inserted
UpdateOrder(p) ==
    /\ task[p].pc = "update"
    /\ LET order == task[p].order
           trades == task[p].trades
           filled_quantity == SumQty(trades)
       IN /\ db' = IF trades # <<>>
                   THEN [db EXCEPT ![order.id].status =
                                       FilledStatus(filled_quantity, order.quantity),
                                   ![order.id].filled_quantity = filled_quantity]
                   ELSE db
          /\ last' = [NoResponse EXCEPT !.kind = "create", !.result = "ok",
                                         !.order = order, !.response = order,
                                         !.trades = trades,
                                         !.start = task[p].start]
    /\ task' = [task EXCEPT ![p] = IdleTask]
    /\ UNCHANGED <<bids, asks, volume>>

\* create_order: the INSERT fails, `?` returns AppError::Database
InsertFails(req) ==
    /\ Validate(req)
    /\ last' = [NoResponse EXCEPT !.kind = "create", !.result = "database",
                                   !.request = req]
    /\ UNCHANGED <<bids, asks, db, task, volume>>

\* create_order: the UPDATE after trades fails, `?` returns
\* AppError::Database (last keeps the order and its trades for the claims;
\* the caller receives the error alone)
UpdateOrderFails(p) ==
    /\ task[p].pc = "update"
    /\ task[p].trades # <<>>
    /\ last' = [NoResponse EXCEPT !.kind = "create", !.result = "database",
                                   !.order = task[p].order,
                                   !.trades = task[p].trades]
    /\ task' = [task EXCEPT ![p] = IdleTask]
    /\ UNCHANGED <<bids, asks, db, volume>>

\* ------------------------------------------------------------ cancel_order
Cancellable == {"New", "Open", "PartiallyFilled"}

\* cancel_order: SELECT ... WHERE id = $1 AND status IN ('new', 'open',
\* 'partially_filled'); no row is AppError::NotFound
CancelOrder(p, order_id) ==
    /\ FreeSlot(p)
    /\ IF order_id \in DOMAIN db /\ db[order_id].status \in Cancellable
       THEN /\ task' = [task EXCEPT ![p] =
                         [IdleTask EXCEPT
                             !.pc = "remove",
                             !.order = db[order_id],
                             !.start = IF /\ last.kind = "create"
                                          /\ last.result = "ok"
                                          /\ last.order.id = order_id
                                       THEN last.start ELSE NoStart]]
            /\ last' = NoResponse
       ELSE /\ last' = [NoResponse EXCEPT !.kind = "cancel",
                                          !.result = "not_found"]
            /\ UNCHANGED task
    /\ UNCHANGED <<bids, asks, db, volume>>

\* OrderBookService::remove_order
RemoveOrder(p) ==
    /\ task[p].pc = "remove"
    /\ IF task[p].order.side = "Buy"
       THEN /\ bids' = RemoveFromBook(bids, task[p].order)
            /\ UNCHANGED asks
       ELSE /\ asks' = RemoveFromBook(asks, task[p].order)
            /\ UNCHANGED bids
    /\ task' = Observe([task EXCEPT ![p].pc = "cancel_update"], bids', asks')
    /\ UNCHANGED <<db, last, volume>>

\* cancel_order: UPDATE orders SET status = cancelled ... RETURNING *
CancelUpdate(p) ==
    /\ task[p].pc = "cancel_update"
    /\ LET order_id == task[p].order.id
           updated_order == [db[order_id] EXCEPT !.status = "Cancelled"]
       IN /\ db' = [db EXCEPT ![order_id] = updated_order]
          /\ last' = [NoResponse EXCEPT !.kind = "cancel", !.result = "ok",
                                         !.order = task[p].order,
                                         !.response = updated_order]
    /\ task' = [task EXCEPT ![p] = IdleTask]
    /\ UNCHANGED <<bids, asks, volume>>

\* cancel_order: the SELECT fails, `?` returns AppError::Database
SelectFails(order_id) ==
    /\ last' = [NoResponse EXCEPT !.kind = "cancel", !.result = "database"]
    /\ UNCHANGED <<bids, asks, db, task, volume>>

\* cancel_order: the UPDATE fails after remove_order, `?` returns
\* AppError::Database
CancelUpdateFails(p) ==
    /\ task[p].pc = "cancel_update"
    /\ last' = [NoResponse EXCEPT !.kind = "cancel", !.result = "database",
                                   !.order = task[p].order]
    /\ task' = [task EXCEPT ![p] = IdleTask]
    /\ UNCHANGED <<bids, asks, db, volume>>

\* ---------------------------------------------------------- specifications
\* a step of the command task p is running
Step(p) ==
    \/ MatchBuyRead(p)
    \/ MatchBuyWrite(p)
    \/ MatchSellRead(p)
    \/ MatchSellWrite(p)
    \/ RestBuy(p)
    \/ RestSell(p)
    \/ UpdateOrder(p)
    \/ RemoveOrder(p)
    \/ CancelUpdate(p)
    \/ SnapshotAsks(p)

\* Sequential run: a command starts only when no other command is in flight
Next ==
    \/ \E req \in Requests : AllIdle /\ RejectOrder(req)
    \/ \E p \in Procs, req \in Requests : AllIdle /\ CreateOrder(p, req)
    \/ \E p \in Procs, order_id \in OrderIds : AllIdle /\ CancelOrder(p, order_id)
    \/ \E p \in Procs : AllIdle /\ GetOrderBook(p)
    \/ \E p \in Procs : Step(p)

Spec == Init /\ [][Next]_vars

\* the requests of the concurrent run: limit orders of the smallest quantity
ConcRequests ==
    {req \in UsableRequests :
        req.order_type = "Limit" /\ req.quantity = SetMin(Quantities)}

\* Concurrent run: a command starts whenever a task is free, and the steps
\* of the commands in flight interleave.  (A request that fails validate()
\* touches no shared state and is left out.)
NextConc ==
    \/ \E p \in Procs, req \in ConcRequests : CreateOrder(p, req)
    \/ \E p \in Procs, order_id \in OrderIds : CancelOrder(p, order_id)
    \/ \E p \in Procs : GetOrderBook(p)
    \/ \E p \in Procs : Step(p)

SpecConc == Init /\ [][NextConc]_vars

\* a step of the create_order or cancel_order task p is running
OrderStep(p) ==
    \/ MatchBuyRead(p)
    \/ MatchBuyWrite(p)
    \/ MatchSellRead(p)
    \/ MatchSellWrite(p)
    \/ RestBuy(p)
    \/ RestSell(p)
    \/ UpdateOrder(p)
    \/ RemoveOrder(p)
    \/ CancelUpdate(p)

\* the requests of the fair run: sells at every price, buys at the highest
LiveRequests ==
    {req \in ConcRequests : req.side = "Buy" => req.price = SetMax(Prices)}

\* Concurrent submits and cancels under fair scheduling: a task that can
\* take a step (its lock is granted, its statement returns) eventually does
NextLive ==
    \/ \E p \in Procs, req \in LiveRequests : CreateOrder(p, req)
    \/ \E p \in Procs, order_id \in OrderIds : CancelOrder(p, order_id)
    \/ \E p \in Procs : OrderStep(p)

SpecLive ==
    Init /\ [][NextLive]_vars /\ \A p \in Procs : WF_vars(OrderStep(p))

\* Sequential run in which a statement sent to the database may fail
NextFail ==
    \/ \E p \in Procs, req \in ConcRequests : AllIdle /\ CreateOrder(p, req)
    \/ \E req \in ConcRequests : AllIdle /\ InsertFails(req)
    \/ \E p \in Procs, order_id \in OrderIds : AllIdle /\ CancelOrder(p, order_id)
    \/ \E order_id \in OrderIds : AllIdle /\ SelectFails(order_id)
    \/ \E p \in Procs : AllIdle /\ GetOrderBook(p)
    \/ \E p \in Procs : Step(p)
    \/ \E p \in Procs : UpdateOrderFails(p)
    \/ \E p \in Procs : CancelUpdateFails(p)

SpecFail == Init /\ [][NextFail]_vars

\* Deep books: get_order_book applied to books of up to MaxLevels levels a
\* side.  The bids are at prices in 1..MaxLevels and the asks above them, one
\* limit order of the smallest quantity at each level, as left by that many
\* submits that did not cross.
MaxLevels == 11

\* the sets of levels of one side: few levels, or about DepthLimit of them
LevelSets ==
    {S \in SUBSET (1..MaxLevels) :
        Cardinality(S) <= 2 \/ Cardinality(S) >= MaxLevels - 2}

\* the orders table after buys at the prices S and then sells at the prices
\* MaxLevels + k, k in T, were created in ascending order of price
DeepOrders(S, T) ==
    LET buy_prices == KeysAscending(S)
        sell_prices == KeysAscending(T)
    IN [i \in 1..(Len(buy_prices) + Len(sell_prices)) |->
           [NoOrder EXCEPT
               !.id = i, !.created_at = i,
               !.side = IF i <= Len(buy_prices) THEN "Buy" ELSE "Sell",
               !.price = IF i <= Len(buy_prices) THEN buy_prices[i]
                         ELSE MaxLevels + sell_prices[i - Len(buy_prices)],
               !.quantity = SetMin(Quantities)]]

RECURSIVE RestAll(_, _, _)
\* the half-book of a side after add_order has rested the orders in turn
RestAll(book, orders, side) ==
    IF orders = <<>> THEN book
    ELSE RestAll(IF Head(orders).side = side
                 THEN RestOnBook(book, Head(orders)) ELSE book,
                 Tail(orders), side)

InitDepth ==
    \E S \in LevelSets, T \in LevelSets :
        /\ db = DeepOrders(S, T)
        /\ bids = RestAll(EmptyMap, DeepOrders(S, T), "Buy")
        /\ asks = RestAll(EmptyMap, DeepOrders(S, T), "Sell")
        /\ task = [p \in Procs |-> IdleTask]
        /\ last = NoResponse
        /\ volume = 0

NextDepth ==
    \/ \E p \in Procs : GetOrderBook(p)
    \/ \E p \in Procs : SnapshotAsks(p)

SpecDepth == InitDepth /\ [][NextDepth]_vars

\* ------------------------------------------------- vocabulary of the claims
\* the price levels of a half-book that hold at least one order
OpenLevels(book) == {k \in DOMAIN book : book[k] # <<>>}

\* where order id is queued in a half-book: <<price, index>> pairs
Entries(book, id) ==
    {e \in (DOMAIN book) \X (1..MaxOrders) :
        e[2] <= Len(book[e[1]]) /\ book[e[1]][e[2]].id = id}

InBook(id) == Entries(bids, id) # {} \/ Entries(asks, id) # {}

OwnBook(order) == IF order.side = "Buy" THEN bids ELSE asks
OpposingBook(order) == IF order.side = "Buy" THEN asks ELSE bids

\* a create_order that has returned Ok, no command in flight
SubmitDone == AllIdle /\ last.kind = "create" /\ last.result = "ok"

\* task p appends a trade in this step
TradeStep(p) == Len(task'[p].trades) = Len(task[p].trades) + 1
NewTrade(p) == task'[p].trades[Len(task'[p].trades)]

\* the level task p matches against, and the maker of its new trade, before
\* the step
MatchedQueue(p) == OpposingBook(task[p].order)[task[p].best_price]
MatchedMaker(p) ==
    MatchedQueue(p)[QueuePosition(MatchedQueue(p), NewTrade(p).order_id)]

\* price a is strictly better than price b for a taker of this side to hit
BetterFor(side, a, b) == IF side = "Buy" THEN a < b ELSE a > b

\* ---------------------------------------------------------------------- C1
\* C1: within one price level the maker of every trade is the order that was
\* inserted earliest among the orders resting at that level (so the earlier
\* order is filled or cancelled before a later one receives a fill, and a
\* partial fill does not change priority).
C1_FifoWithinLevel ==
    [][\A p \in Procs :
         TradeStep(p) =>
            \A i \in 1..Len(MatchedQueue(p)) :
               MatchedQueue(p)[i].id # NewTrade(p).order_id
                  => MatchedMaker(p).created_at < MatchedQueue(p)[i].created_at]_vars

\* ---------------------------------------------------------------------- C2
\* C2: after every command the book is not crossed: when both half-books hold
\* resting orders, the best bid price is strictly below the best ask price.
C2_BookNotCrossed ==
    AllIdle =>
       (OpenLevels(bids) # {} /\ OpenLevels(asks) # {}
           => SetMax(OpenLevels(bids)) < SetMin(OpenLevels(asks)))

\* ---------------------------------------------------------------------- C3
\* C3: after a limit submit of quantity q whose fills total f, exactly q - f
\* rests on the taker's own half-book at its limit price when f < q, and
\* nothing of the taker rests when f = q.
C3_ResidualRests ==
    (SubmitDone /\ last.order.order_type = "Limit") =>
       LET order == last.order
           f == SumQty(last.trades)
           own == Entries(OwnBook(order), order.id)
       IN /\ Entries(OpposingBook(order), order.id) = {}
          /\ IF f < order.quantity
             THEN /\ Cardinality(own) = 1
                  /\ \A e \in own :
                        /\ e[1] = order.price
                        /\ LET o == OwnBook(order)[e[1]][e[2]]
                           IN o.quantity - o.filled_quantity = order.quantity - f
             ELSE own = {}

\* ---------------------------------------------------------------------- C4
TradesAtMakerPrice(trades) ==
    \A i \in 1..Len(trades) : trades[i].price = db[trades[i].order_id].price

\* C4: every trade of a submit has the limit price of the maker it fills,
\* whatever the taker's limit price.
C4_TradeAtMakerPrice ==
    /\ \A p \in Procs : TradesAtMakerPrice(task[p].trades)
    /\ TradesAtMakerPrice(last.trades)

\* a taker that got price improvement: a trade away from its own limit price
C4_Witness ==
    /\ SubmitDone
    /\ \E i \in 1..Len(last.trades) : last.trades[i].price # last.order.price

\* ---------------------------------------------------------------------- C5
\* C5: in a sequential run no trade occurs at a price level while a strictly
\* better-priced level of the opposing half-book still holds a resting order.
C5_BestLevelFirst ==
    [][\A p \in Procs :
         TradeStep(p) =>
            \A k \in OpenLevels(OpposingBook(task[p].order)) :
               ~BetterFor(task[p].order.side, k, NewTrade(p).price)]_vars

\* a submit traded at one level while a worse-priced level holds an order
C5_Witness ==
    /\ SubmitDone
    /\ last.trades # <<>>
    /\ \E k \in OpenLevels(OpposingBook(last.order)) :
          BetterFor(last.order.side, last.trades[1].price, k)

\* ---------------------------------------------------------------------- C6
\* C6: when a limit submit at price p completes, either its fills total its
\* quantity or no opposing level priced at p or better still holds an order,
\* and none of its trades is at a price worse than p; equality crosses.
C6_CrossesWhileMarketable ==
    (SubmitDone /\ last.order.order_type = "Limit") =>
       LET order == last.order IN
       /\ \/ SumQty(last.trades) = order.quantity
          \/ \A k \in OpenLevels(OpposingBook(order)) :
                BetterFor(order.side, order.price, k)
       /\ \A i \in 1..Len(last.trades) :
             ~BetterFor(order.side, order.price, last.trades[i].price)

\* a buy limit priced exactly at the best ask that filled
C6_Witness ==
    /\ SubmitDone
    /\ last.order.order_type = "Limit"
    /\ last.order.side = "Buy"
    /\ last.trades # <<>>
    /\ last.trades[1].price = last.order.price

\* ---------------------------------------------------------------------- C7
C7_FillStep ==
    \A p \in Procs :
       TradeStep(p) =>
          LET maker_remaining ==
                 MatchedMaker(p).quantity - MatchedMaker(p).filled_quantity
              taker_remaining == task[p].remaining_quantity
              qty == NewTrade(p).quantity
          IN /\ qty = IF taker_remaining <= maker_remaining
                      THEN taker_remaining ELSE maker_remaining
             /\ qty > 0
             /\ task'[p].remaining_quantity = taker_remaining - qty

C7_NoOverfill ==
    /\ \A p \in Procs : SumQty(task[p].trades) <= task[p].order.quantity
    /\ SumQty(last.trades) <= last.order.quantity
    /\ \A k \in DOMAIN asks : \A i \in 1..Len(asks[k]) :
          asks[k][i].filled_quantity <= asks[k][i].quantity
    /\ \A k \in DOMAIN bids : \A i \in 1..Len(bids[k]) :
          bids[k][i].filled_quantity <= bids[k][i].quantity

\* C7: each fill quantity is min(taker remaining, maker remaining) and is
\* strictly positive; the trades of one submit sum to at most the taker's
\* quantity and no maker is filled beyond its remaining quantity.
C7_FillIsMin == [][C7_FillStep]_vars /\ []C7_NoOverfill

\* a submit with two fills: the first bounded by its maker, the taker moved on
C7_Witness ==
    /\ SubmitDone
    /\ Len(last.trades) = 2
    /\ last.trades[1].quantity < last.order.quantity

\* ---------------------------------------------------------------------- C8
RECURSIVE SumFilled(_)
SumFilled(orders) ==
    IF orders = <<>> THEN 0
    ELSE orders[1].filled_quantity + SumFilled(Tail(orders))

RECURSIVE SumFilledBook(_, _)
SumFilledBook(book, keys) ==
    IF keys = {} THEN 0
    ELSE LET k == CHOOSE x \in keys : TRUE
         IN SumFilled(book[k]) + SumFilledBook(book, keys \ {k})

\* C8: conservation: after any sequence of submits and cancels, twice the sum
\* of all trade quantities equals the sum of the filled quantities of the
\* orders (the persisted rows and the resting copies taken together).
C8_Conservation ==
    AllIdle =>
       2 * volume = SumFilled(db) + SumFilledBook(bids, DOMAIN bids)
                                  + SumFilledBook(asks, DOMAIN asks)

\* ---------------------------------------------------------------------- C9
\* C9: after every command a price key is present in a half-book only if its
\* level holds at least one resting order.
C9_NoEmptyLevel ==
    AllIdle => /\ \A k \in DOMAIN bids : bids[k] # <<>>
               /\ \A k \in DOMAIN asks : asks[k] # <<>>

\* --------------------------------------------------------------------- C10
\* C10: market orders never rest: after a submit of a market order completes
\* the order appears in neither half-book.
C10_MarketNeverRests ==
    (SubmitDone /\ last.order.order_type = "Market") => ~InBook(last.order.id)

\* the queue without the orders of the given id
Without(queue, id) == SelectSeq(queue, LAMBDA o : o.id # id)

\* task p takes the order in task[p].order out of the book in this step
CancelRemoveStep(p) == task[p].pc = "remove" /\ task'[p].pc = "cancel_update"

\* task p records the cancellation in this step
CancelMarkStep(p) == task[p].pc = "cancel_update" /\ task'[p].pc = "idle"

C11_RemoveStep ==
    \A p \in Procs :
        (CancelRemoveStep(p) /\ InBook(task[p].order.id)) =>
            LET order == task[p].order
                own == OwnBook(order)
                ownAfter == IF order.side = "Buy" THEN bids' ELSE asks'
                rest == Without(own[order.price], order.id)
            IN /\ Entries(own, order.id) # {}
               /\ \A e \in Entries(own, order.id) : e[1] = order.price
               /\ Len(rest) = Len(own[order.price]) - 1
               /\ DOMAIN ownAfter =
                      IF rest = <<>> THEN DOMAIN own \ {order.price}
                      ELSE DOMAIN own
               /\ \A k \in DOMAIN ownAfter :
                      ownAfter[k] = IF k = order.price THEN rest ELSE own[k]
               /\ order.side = "Buy" => asks' = asks
               /\ order.side = "Sell" => bids' = bids
               /\ db' = db

C11_MarkStep ==
    \A p \in Procs :
        CancelMarkStep(p) =>
            LET id == task[p].order.id IN
            /\ db'[id].status = "Cancelled"
            /\ db' = [db EXCEPT ![id].status = "Cancelled"]
            /\ Entries(bids', id) = {} /\ Entries(asks', id) = {}
            /\ bids' = bids /\ asks' = asks
            /\ last'.kind = "cancel" /\ last'.result = "ok"

\* C11: a successful cancel of a resting order takes exactly that order out
\* of the level at its side and price, drops the level if it is left empty
\* and marks the order Cancelled; every other queued order keeps its level,
\* quantities and position, and the opposite half-book is unchanged.
C11_CancelFrame == [][C11_RemoveStep /\ C11_MarkStep]_vars

\* a resting order has been cancelled out of a level that still holds others
C11_Witness ==
    /\ AllIdle /\ last.kind = "cancel" /\ last.result = "ok"
    /\ volume = 0
    /\ db[last.order.id].status = "Cancelled"
    /\ last.order.price \in OpenLevels(OwnBook(last.order))
    /\ ~InBook(last.order.id)

\* task p has its cancel accepted in this step
CancelAcceptStep(p) == task[p].pc = "idle" /\ task'[p].pc = "remove"

\* C12: a cancel of an order that is unknown or not queued in the book is
\* not accepted, and a cancel that fails with NotFound leaves the book and
\* every order's status as they were.
C12_CancelOnlyResting ==
    [][/\ \A p \in Procs :
            CancelAcceptStep(p) => InBook(task'[p].order.id)
       /\ (last'.kind = "cancel" /\ last'.result = "not_found") =>
            UNCHANGED <<bids, asks, db>>]_vars

\* the requests the handler is to turn down
Invalid(req) ==
    \/ req.symbol_len < 1
    \/ req.symbol_len > MaxSymbolLen
    \/ req.quantity <= 0
    \/ req.price <= 0

\* a request is turned down in this step
RejectStep == last'.kind = "create" /\ last'.result = "validation" /\ last' # last

\* task p has its order accepted and inserted in this step
SubmitAcceptStep(p) ==
    task[p].pc = "idle" /\ task'[p].pc \in {"buy_read", "sell_read"}

\* requests around every limit of validate(), negative amounts included
ProbeRequests ==
    [symbol_len : {0, 1, MaxSymbolLen, MaxSymbolLen + 1}, side : {"Buy"},
     quantity : {-1, 0, 1}, price : {-1, 0, 1}, order_type : {"Limit"}]

C13_ValidateAgrees ==
    \A req \in Requests \cup ProbeRequests : Validate(req) <=> ~Invalid(req)

C13_Step ==
    /\ RejectStep =>
          /\ Invalid(last'.request)
          /\ UNCHANGED <<bids, asks, db, task, volume>>
    /\ \A p \in Procs :
          SubmitAcceptStep(p) =>
              /\ Len(db') = Len(db) + 1
              /\ db'[Len(db')].quantity > 0
              /\ db'[Len(db')].price > 0

\* C13: a create-order request is turned down with a validation error when
\* its symbol is empty or longer than 20 characters, its quantity is <= 0 or
\* its price is <= 0, and passes validate() otherwise; a request turned down
\* creates no order, produces no trade and leaves the book unchanged.
C13_Validation == []C13_ValidateAgrees /\ [][C13_Step]_vars

\* a request with a price <= 0 has been turned down while orders rest
C13_Witness ==
    /\ last.kind = "create" /\ last.result = "validation"
    /\ last.request.price <= 0
    /\ db # <<>> /\ OpenLevels(asks) # {}

\* the status changes the claim allows; Filled, Cancelled and Rejected have
\* none
AllowedTransitions ==
    {<<"New", "Open">>, <<"New", "Rejected">>, <<"New", "Filled">>,
     <<"Open", "PartiallyFilled">>, <<"Open", "Filled">>,
     <<"Open", "Cancelled">>,
     <<"PartiallyFilled", "Filled">>, <<"PartiallyFilled", "Cancelled">>}

\* C14: the status of an order changes only along new -> (open | rejected |
\* filled), open -> (partially-filled | filled | cancelled),
\* partially-filled -> (filled | cancelled); a filled, cancelled or rejected
\* order never changes status again.
C14_StatusDag ==
    [][\A id \in DOMAIN db :
          db'[id].status # db[id].status =>
              <<db[id].status, db'[id].status>> \in AllowedTransitions]_vars

\* C15: after every command, an order is in the book if and only if its
\* status is open or partially-filled, and an order in the book is queued
\* exactly once, in the half-book of its side at the level of its price.
C15_RestingIffOpen ==
    AllIdle =>
        \A id \in DOMAIN db :
            /\ InBook(id) <=> db[id].status \in {"Open", "PartiallyFilled"}
            /\ InBook(id) =>
                  /\ Cardinality(Entries(bids, id) \cup Entries(asks, id)) = 1
                  /\ Entries(OpposingBook(db[id]), id) = {}
                  /\ \A e \in Entries(OwnBook(db[id]), id) :
                         e[1] = db[id].price

\* the orders queued in a half-book
QueuedOrders(book) ==
    {book[k][i] : <<k, i>> \in
        {e \in (DOMAIN book) \X (1..MaxOrders) : e[2] <= Len(book[e[1]])}}

FilledWithinQuantity(order) ==
    0 <= order.filled_quantity /\ order.filled_quantity <= order.quantity

\* C16: for every order, in the book and in its persisted record,
\* 0 <= filled_quantity <= quantity.
C16_FilledWithinQuantity ==
    /\ \A id \in DOMAIN db : FilledWithinQuantity(db[id])
    /\ \A order \in QueuedOrders(bids) \cup QueuedOrders(asks) :
          FilledWithinQuantity(order)

\* a record filled to its quantity while a maker rests filled in part
C16_Witness ==
    /\ AllIdle
    /\ \E id \in DOMAIN db :
          db[id].filled_quantity > 0 /\ db[id].filled_quantity = db[id].quantity
    /\ \E order \in QueuedOrders(bids) \cup QueuedOrders(asks) :
          0 < order.filled_quantity /\ order.filled_quantity < order.quantity

\* the best level of the half-book a taker of this side hits
BestOpenLevel(side, book) ==
    IF side = "Buy" THEN SetMin(OpenLevels(book)) ELSE SetMax(OpenLevels(book))

\* C17: with submits and cancels running concurrently, every fill is taken
\* at the level that is the best opposing level holding an order at the
\* moment of the fill, as in a serial execution of the commands: no resting
\* order is matched while a better-priced order inserted by another command
\* is passed over.
C17_FillsAtBestLevel ==
    [][\A p \in Procs :
         TradeStep(p) =>
            NewTrade(p).price =
                BestOpenLevel(task[p].order.side, OpposingBook(task[p].order))]_vars

\* task p returns the OrderBook of its get_order_book in this step
SnapshotReturnStep(p) == task[p].pc = "snap_asks" /\ task'[p].pc = "idle"

\* C18: an OrderBook returned by get_order_book while submits and cancels
\* run is the book of one moment: its bids and asks are those the book held
\* together at some moment of the call, never bids and asks taken from
\* different moments.
C18_ConsistentSnapshot ==
    [][\A p \in Procs :
         SnapshotReturnStep(p) => last'.book \in task[p].seen]_vars

\* the prices of the entries of one side of an OrderBook, in order
EntryPrices(entries) == [i \in 1..Len(entries) |-> entries[i].price]

\* prices: the prices reported for a half-book with the levels `levels`,
\* where Better(a, b) says price a has priority over price b
InPriorityOrder(prices, levels, Better(_, _)) ==
    /\ Len(prices) <= DepthLimit
    /\ Len(prices) = Min(DepthLimit, Cardinality(levels))
    /\ \A i \in 1..Len(prices) : prices[i] \in levels
    /\ \A i, j \in 1..Len(prices) : i < j => Better(prices[i], prices[j])
    /\ \A k \in levels :
          (\A i \in 1..Len(prices) : prices[i] # k) =>
              \A i \in 1..Len(prices) : Better(prices[i], k)

\* C19: the OrderBook of get_order_book holds at most 10 price levels a
\* side in priority order, bids from the highest price down and asks from
\* the lowest price up, no price twice, and no level left out while a level
\* of worse price is reported.
C19_DepthInPriorityOrder ==
    last.kind = "book" =>
        /\ InPriorityOrder(EntryPrices(last.book.bids), DOMAIN bids,
                           LAMBDA a, b : a > b)
        /\ InPriorityOrder(EntryPrices(last.book.asks), DOMAIN asks,
                           LAMBDA a, b : a < b)

\* an OrderBook of DepthLimit levels a side, out of more levels in the book
C19_Witness ==
    /\ last.kind = "book"
    /\ Len(last.book.bids) = DepthLimit /\ Len(last.book.asks) = DepthLimit
    /\ Cardinality(DOMAIN bids) > DepthLimit
    /\ Cardinality(DOMAIN asks) > DepthLimit

RECURSIVE OpenUpTo(_, _)
\* the open quantity of the first n orders of a queue
OpenUpTo(queue, n) ==
    IF n = 0 THEN 0
    ELSE OpenUpTo(queue, n - 1)
            + (queue[n].quantity - queue[n].filled_quantity)

\* the entries report every level of the half-book with its open quantity
\* and its number of orders
ReportsLevels(entries, book) ==
    /\ {entries[i].price : i \in 1..Len(entries)} = DOMAIN book
    /\ \A i \in 1..Len(entries) :
          LET queue == book[entries[i].price] IN
          /\ entries[i].quantity = OpenUpTo(queue, Len(queue))
          /\ entries[i].order_count = Len(queue)

\* C20: for every price level, after any sequence of submits and cancels,
\* the quantity get_order_book reports for the level is the sum of
\* quantity - filled_quantity over the orders queued at the level, and the
\* order_count it reports is the number of those orders.
C20_LevelAggregates ==
    (AllIdle /\ last.kind = "book") =>
        /\ ReportsLevels(last.book.bids, bids)
        /\ ReportsLevels(last.book.asks, asks)

\* a level is reported that queues two orders, one of them filled in part
C20_Witness ==
    /\ AllIdle /\ last.kind = "book"
    /\ \E i \in 1..Len(last.book.bids) :
          LET queue == bids[last.book.bids[i].price] IN
          /\ last.book.bids[i].order_count = 2
          /\ \E j \in 1..Len(queue) : queue[j].filled_quantity > 0
          /\ last.book.bids[i].quantity < TotalQuantityIgnoringFills(queue)

\* C22: the response of a submit carries its accumulated fills: the
\* filled_quantity returned by create_order is the sum of the trades the
\* submit produced, and the status returned is the status recorded for it.
C22_ResponseCarriesFills ==
    SubmitDone =>
        /\ last.response.id = last.order.id
        /\ last.response.filled_quantity = SumQty(last.trades)
        /\ last.response.status = db[last.order.id].status

\* create_order has returned an error, no command in flight
SubmitFailed == AllIdle /\ last.kind = "create" /\ last.result \in {"validation", "database"}

\* C23: no submit is completed in part: when create_order returns an error,
\* no trade of that submit has been applied to the book and its order is
\* not queued in it.
C23_NoPartialSubmit ==
    SubmitFailed =>
        /\ last.trades = <<>>
        /\ last.order.id # 0 => ~InBook(last.order.id)

\* task p is inside add_order for its order, or about to record the result
InSubmit(p) ==
    task[p].pc \in {"buy_read", "buy_write", "sell_read", "sell_write",
                    "buy_rest", "sell_rest", "update"}

\* task p queues its order in this step
RestStep(p) == task[p].pc \in {"buy_rest", "sell_rest"} /\ task'[p].pc = "update"

\* the order does not cross the opposing half-book: no order rests there,
\* or the best price at which one rests is worse than the order's limit
NonCrossing(order, opposing) ==
    \/ OpenLevels(opposing) = {}
    \/ BetterFor(order.side, order.price,
                 BestOpenLevel(order.side, opposing))

\* the queue holds the order, in full, behind the orders of `before`: it is
\* added to them and every one of them is taken by get_next_order first
QueuedBehind(queue, before, order) ==
    /\ Len(queue) = Len(before) + 1
    /\ \E i \in 1..Len(queue) :
          /\ queue[i].id = order.id
          /\ queue[i].quantity - queue[i].filled_quantity = order.quantity
          /\ [j \in 1..Len(before) |->
                 IF j < i THEN queue[j] ELSE queue[j + 1]] = before
          /\ before # <<>> => NextOrderIndex(queue) # i

C24_Step(p) ==
    LET order == task[p].order
        own == OwnBook(order)
        ownAfter == IF order.side = "Buy" THEN bids' ELSE asks'
        opposingAfter == IF order.side = "Buy" THEN asks' ELSE bids'
        before == IF order.price \in DOMAIN own THEN own[order.price] ELSE <<>>
    IN /\ task'[p].pc # "idle" => task'[p].trades = <<>>
       /\ opposingAfter = OpposingBook(order)
       /\ IF RestStep(p)
          THEN /\ DOMAIN ownAfter = DOMAIN own \cup {order.price}
               /\ \A k \in DOMAIN own : k # order.price => ownAfter[k] = own[k]
               /\ QueuedBehind(ownAfter[order.price], before, order)
          ELSE ownAfter = own

\* C24: a limit submit that does not cross produces no trade, leaves the
\* opposing half-book unchanged and adds exactly one entry to its own
\* half-book: the order with its full quantity at its limit price, behind
\* every order already resting at that price.
C24_NonCrossingSubmit ==
    [][\A p \in Procs :
         (/\ InSubmit(p)
          /\ task[p].order.order_type = "Limit"
          /\ task[p].trades = <<>>
          /\ NonCrossing(task[p].order, OpposingBook(task[p].order)))
            => C24_Step(p)]_vars

RECURSIVE OpenInBook(_, _)
\* the open quantity of the orders queued at the levels `keys` of a half-book
OpenInBook(book, keys) ==
    IF keys = {} THEN 0
    ELSE LET k == CHOOSE x \in keys : TRUE
         IN OpenUpTo(book[k], Len(book[k])) + OpenInBook(book, keys \ {k})

\* the queue of a level of a half-book, empty when the level is not there
QueueAt(book, price) == IF price \in DOMAIN book THEN book[price] ELSE <<>>

C25_TradeStep(p) ==
    LET order == task[p].order
        opposing == OpposingBook(order)
        opposingAfter == IF order.side = "Buy" THEN asks' ELSE bids'
        ownAfter == IF order.side = "Buy" THEN bids' ELSE asks'
        price == task[p].best_price
        queue == MatchedQueue(p)
        queueAfter == QueueAt(opposingAfter, price)
        i == QueuePosition(queue, NewTrade(p).order_id)
        maker == queue[i]
        filled == maker.filled_quantity + NewTrade(p).quantity
    IN /\ NewTrade(p).quantity > 0
       /\ IF filled < maker.quantity
          THEN queueAfter = [queue EXCEPT ![i].filled_quantity = filled]
          ELSE /\ filled = maker.quantity
               /\ queueAfter = SubSeq(queue, 1, i - 1)
                                   \o SubSeq(queue, i + 1, Len(queue))
       /\ DOMAIN opposingAfter \subseteq DOMAIN opposing
       /\ \A k \in DOMAIN opposing :
              k # price => k \in DOMAIN opposingAfter
                             /\ opposingAfter[k] = opposing[k]
       /\ ownAfter = OwnBook(order)
       /\ OpenInBook(opposingAfter, DOMAIN opposingAfter)
              = OpenInBook(opposing, DOMAIN opposing) - NewTrade(p).quantity

\* a step of a submit without a trade leaves the open quantity of the
\* opposing half-book as it is
C25_OtherStep(p) ==
    LET opposingAfter == IF task[p].order.side = "Buy" THEN asks' ELSE bids'
    IN OpenInBook(opposingAfter, DOMAIN opposingAfter)
          = OpenInBook(OpposingBook(task[p].order),
                       DOMAIN OpposingBook(task[p].order))

\* C25: each trade changes only the matched maker of the opposing
\* half-book: its filled quantity grows by the trade quantity, it keeps its
\* place in its level if it is still open and is removed if it is filled;
\* every other resting order is unchanged, and over the submit the open
\* quantity of the opposing half-book drops by the sum of its trades.
C25_TradeChangesOnlyMaker ==
    [][\A p \in Procs :
         InSubmit(p) =>
            IF TradeStep(p) THEN C25_TradeStep(p) ELSE C25_OtherStep(p)]_vars

\* a maker queued behind another order has been filled in part and is
\* still queued
C25_Witness ==
    /\ SubmitDone /\ last.trades # <<>>
    /\ \E k \in DOMAIN OpposingBook(last.order) :
          LET queue == OpposingBook(last.order)[k] IN
          /\ Len(queue) = 2
          /\ \E i \in 1..2 :
                /\ queue[i].id = last.trades[1].order_id
                /\ queue[i].filled_quantity = last.trades[1].quantity
                /\ queue[i].filled_quantity < queue[i].quantity

\* C26: after create_order the taker's recorded status is Filled exactly
\* when its trade quantities sum to its quantity or more, PartiallyFilled
\* when it traded less than its quantity, and New with filled_quantity 0
\* when it did not trade; the recorded filled_quantity is the sum of its
\* trade quantities.
C26_RecordedStatus ==
    SubmitDone =>
        LET row == db[last.order.id]
            traded == SumQty(last.trades)
        IN /\ row.filled_quantity = traded
           /\ row.status = "Filled" <=> traded >= row.quantity
           /\ row.status = "PartiallyFilled" <=>
                  (last.trades # <<>> /\ traded < row.quantity)
           /\ row.status = "New" <=> last.trades = <<>>
           /\ last.trades = <<>> => traded = 0

\* a submit recorded as filled in part
C26_Witness ==
    /\ SubmitDone
    /\ db[last.order.id].status = "PartiallyFilled"
    /\ db[last.order.id].filled_quantity > 0

\* C27: round trip: a limit order that does not cross is submitted and then
\* cancelled; both half-books are then exactly as they were before the
\* submit (same price keys, same queues in the same order, same quantities).
C27_RoundTrip ==
    [][\A p \in Procs :
         (/\ CancelMarkStep(p)
          /\ task[p].start.known
          /\ task[p].order.order_type = "Limit"
          /\ NonCrossing(task[p].order,
                         IF task[p].order.side = "Buy" THEN task[p].start.asks
                         ELSE task[p].start.bids))
            => /\ bids' = task[p].start.bids
               /\ asks' = task[p].start.asks]_vars

\* task p is inside match_buy_order / match_sell_order
InMatching(p) ==
    task[p].pc \in {"buy_read", "buy_write", "sell_read", "sell_write"}

\* C28: every submit terminates: with a finite number of other submits and
\* cancels interleaving under fair scheduling, a task inside the matching
\* loop eventually leaves it and add_order returns.
C28_SubmitTerminates ==
    \A p \in Procs : InMatching(p) ~> (task[p].pc \in {"update", "idle"})

\* a submit is back at the head of the loop after a pass through the write
\* block that left it with quantity to fill
C28_Witness ==
    \E p \in Procs :
        /\ task[p].pc \in {"buy_read", "sell_read"}
        /\ task[p].best_price # 0
        /\ task[p].remaining_quantity > 0
        /\ \E q \in Procs : q # p /\ task[q].pc # "idle"

\* task p runs the write block of its matching loop in this step
WriteStep(p) ==
    /\ task[p].pc \in {"buy_write", "sell_write"}
    /\ task'[p].pc \in {"buy_read", "sell_read"}

\* the level task p read as best is no longer in the opposing half-book
LevelGone(p) ==
    task[p].best_price \notin DOMAIN OpposingBook(task[p].order)

C29_Step(p) ==
    /\ LevelGone(p) =>
          /\ task'[p].trades = task[p].trades
          /\ task'[p].remaining_quantity = task[p].remaining_quantity
          /\ bids' = bids /\ asks' = asks
          /\ task'[p].pc = IF task[p].order.side = "Buy" THEN "buy_read"
                           ELSE "sell_read"
    /\ TradeStep(p) =>
          /\ ~LevelGone(p)
          /\ NewTrade(p).price = task[p].best_price
          /\ \E i \in 1..Len(MatchedQueue(p)) :
                LET maker == MatchedQueue(p)[i] IN
                /\ maker.id = NewTrade(p).order_id
                /\ NewTrade(p).quantity > 0
                /\ NewTrade(p).quantity
                      <= maker.quantity - maker.filled_quantity

\* C29: when the level a taker read as best under the read lock has been
\* removed by another command before the taker holds the write lock, the
\* taker produces no trade and changes nothing in that pass and goes back
\* to read the best price; every trade is against an order queued in the
\* book at that moment, for no more than that order has left to fill.
C29_StaleLevel == [][\A p \in Procs : WriteStep(p) => C29_Step(p)]_vars

\* a taker is back at the head of the loop after it found the level it had
\* read removed (no trade has ever emptied a level)
C29_Witness ==
    \E p \in Procs :
        /\ task[p].pc \in {"buy_read", "sell_read"}
        /\ task[p].best_price # 0
        /\ LevelGone(p)
        /\ volume = 0

\* the order is queued at the level of its side and price
QueuedAtOwnLevel(order) ==
    /\ order.price \in DOMAIN OwnBook(order)
    /\ \E i \in 1..Len(OwnBook(order)[order.price]) :
          OwnBook(order)[order.price][i].id = order.id

\* C30: remove_order called for an order whose id is not queued at the
\* level of its side and price returns Ok and leaves both half-books as
\* they were: no order removed, no price key added or dropped.
C30_RemoveAbsentIsNoOp ==
    [][\A p \in Procs :
          (task[p].pc = "remove" /\ task'[p] # task[p]
              /\ ~QueuedAtOwnLevel(task[p].order)) =>
              /\ task'[p].pc = "cancel_update"
              /\ bids' = bids
              /\ asks' = asks]_vars
====
